---- MODULE Spec2Model ----
(***************************************************************************)
(* QueryBot: the conversation turn pipeline.                               *)
(*                                                                         *)
(*   Controller  src/app/page.tsx       (React component Tutor)            *)
(*   Relay       src/unnamed/part_000   (route handler POST of /api/chat)  *)
(*                                                                         *)
(* Every JavaScript string is modelled as a sequence of chunks (a chunk is *)
(* a TLA+ string): "" is <<>>, a typed text is a sequence of one-character *)
(* chunks, a literal such as "No response" is a one-chunk sequence, and    *)
(* string concatenation is \o.  Whitespace is the chunk " ".               *)
(***************************************************************************)
EXTENDS Integers, Sequences, FiniteSets, TLC

VARIABLES
    input,           \* useState('')      page.tsx:13
    uploadedImage,   \* useState(null)    page.tsx:14
    messages,        \* useState([])      page.tsx:15
    isLoading,       \* useState(false)   page.tsx:16
    isMounted,       \* useState(false)   page.tsx:17
    listening,       \* useSpeechRecognition().listening   page.tsx:23
    transcript,      \* useSpeechRecognition().transcript  page.tsx:22
    staleAtStart,    \* the running recognition was started (page.tsx:52) while
                     \* the transcript of an earlier capture was still there
    fetches,         \* one entry per fetch('/api/chat') issued, page.tsx:73
    utterances,      \* the queue of window.speechSynthesis
    synthAvailable,  \* 'speechSynthesis' in window, page.tsx:34
    askGroqClosure,  \* what the current askGroq captured, page.tsx:57-104
    lastEvent,       \* the kind of event the last step handled
    relayIn,         \* a request put to the Relay on its own (RelaySpec)
    relayOut         \* what the Relay answered to relayIn (RelaySpec)

vars == <<input, uploadedImage, messages, isLoading, isMounted, listening,
          transcript, staleAtStart, fetches, utterances, synthAvailable, askGroqClosure,
          lastEvent,
          relayIn, relayOut>>

(***************************************************************************)
(* Bounds of the model.                                                    *)
(***************************************************************************)
MaxKeyLen == 1    \* longest value of the credential variable
MaxTurns == 2     \* turns submitted in one behaviour

(***************************************************************************)
(* Texts.                                                                  *)
(***************************************************************************)
\* the texts typed into the input or delivered by the recognition
Texts == {<<>>, <<" ">>, <<"a">>, <<" ", "a", " ">>}

IsSpace(c) == c = " "

RECURSIVE TrimStart(_)
TrimStart(t) ==
    IF t = <<>> THEN <<>>
    ELSE IF IsSpace(Head(t)) THEN TrimStart(Tail(t)) ELSE t

RECURSIVE TrimEnd(_)
TrimEnd(t) ==
    IF t = <<>> THEN <<>>
    ELSE IF IsSpace(t[Len(t)]) THEN TrimEnd(SubSeq(t, 1, Len(t) - 1)) ELSE t

\* String.prototype.trim
Trim(t) == TrimEnd(TrimStart(t))

\* String.prototype.includes, at the granularity of chunks
Includes(t, chunk) == \E i \in DOMAIN t : t[i] = chunk

\* a || b on strings: the empty string is falsy
OrElse(t, default) == IF t = <<>> THEN default ELSE t

User == <<"user">>
Assistant == <<"assistant">>

NoFile == "null"
Files == {"photo.png"}

(***************************************************************************)
(* JSON.  A JSON text is either [json |-> document] or, when it is not     *)
(* JSON at all, [raw |-> text].  A document is null, an object (its        *)
(* members in property order) or an array of objects.                      *)
(***************************************************************************)
JsonNull == [type |-> "null"]

Member(k, t, v) ==
    CASE t = "bool" -> [k |-> k, t |-> t, b |-> v]
      [] t = "num" -> [k |-> k, t |-> t, n |-> v]
      [] OTHER -> [k |-> k, t |-> t, s |-> v]

MemberValue(m) ==
    CASE m.t = "bool" -> m.b
      [] m.t = "num" -> m.n
      [] OTHER -> m.s

RECURSIVE EncodeMembers(_, _, _)
\* the members of obj named in order, skipping the properties obj lacks
EncodeMembers(obj, order, types) ==
    IF order = <<>> THEN <<>>
    ELSE LET k == Head(order)
             rest == EncodeMembers(obj, Tail(order), Tail(types))
         IN IF k \in DOMAIN obj
            THEN <<Member(k, Head(types), obj[k])>> \o rest
            ELSE rest

DecodeMembers(ms) ==
    [k \in {ms[i].k : i \in DOMAIN ms} |->
        MemberValue(ms[CHOOSE i \in DOMAIN ms : ms[i].k = k])]

\* A Message is {role, content, error?}: page.tsx:6-10
MessageOrder == <<"role", "content", "error">>
MessageTypes == <<"str", "str", "bool">>

\* the Relay's bodies, in the property order of their literals
BodyOrder == <<"success", "content", "tokens_used", "model", "error", "details">>
BodyTypes == <<"bool", "str", "num", "str", "str", "str">>

\* JSON.stringify of an array of Messages
StringifyMessages(ms) ==
    [json |-> [type |-> "array",
               items |-> [i \in DOMAIN ms |->
                            EncodeMembers(ms[i], MessageOrder, MessageTypes)]]]

\* JSON.stringify of one object of the Relay
StringifyBody(body) ==
    [json |-> [type |-> "object",
               members |-> EncodeMembers(body, BodyOrder, BodyTypes)]]

IsJson(text) == "json" \in DOMAIN text

\* JSON.parse, defined where IsJson(text): null, an object or an array
JSONParse(text) ==
    CASE text.json.type = "null" -> JsonNull
      [] text.json.type = "object" -> DecodeMembers(text.json.members)
      [] OTHER -> [i \in DOMAIN text.json.items |->
                      DecodeMembers(text.json.items[i])]

RECURSIVE RenderMembers(_)
RenderMembers(ms) ==
    IF ms = <<>> THEN <<>>
    ELSE LET m == Head(ms)
             v == CASE m.t = "bool" -> <<IF m.b THEN "true" ELSE "false">>
                    [] m.t = "num" -> <<ToString(m.n)>>
                    [] OTHER -> m.s
         IN <<m.k>> \o v \o RenderMembers(Tail(ms))

\* Response.text(): the characters of the body
ResponseText(text) ==
    IF ~IsJson(text) THEN text.raw
    ELSE IF text.json.type = "object"
         THEN <<"{">> \o RenderMembers(text.json.members) \o <<"}">>
         ELSE <<"json">>

(***************************************************************************)
(* The Completion Relay: POST of src/unnamed/part_000.                     *)
(***************************************************************************)
StatusOk == 200
StatusConfigError == 500
StatusProviderFailure == 502

\* process.env.GROQ_API_KEY: unset, or set to a text
EnvUnset == [defined |-> FALSE]
EnvSet(v) == [defined |-> TRUE, value |-> v]
KeyChars == {"k", " "}
Keys == {EnvUnset} \cup
        {EnvSet(v) : v \in UNION {[1..n -> KeyChars] : n \in 0..MaxKeyLen}}

\* what groq.chat.completions.create does is not this repository's: it
\* throws (an API error, a network error, the 15 s timeout), or it resolves
\* with a completion, whose optional parts may be missing
Paris == <<"Paris">>
ModelId == <<"m1">>
Completions ==
    { [choices |-> <<[message |-> [content |-> Paris]]>>,
       usage |-> [total_tokens |-> 12], model |-> ModelId],
      [choices |-> <<[message |-> [content |-> Paris]]>>, model |-> ModelId],
      [choices |-> <<[message |-> [content |-> <<>>]]>>,
       usage |-> [total_tokens |-> 0], model |-> ModelId],
      [choices |-> <<[index |-> 0]>>,
       usage |-> [total_tokens |-> 12], model |-> ModelId],
      [choices |-> <<>>, usage |-> [total_tokens |-> 12], model |-> ModelId],
      [usage |-> [total_tokens |-> 12], model |-> ModelId] }
ProviderErrors == {<<"Request timed out.">>, <<"401 Invalid API Key">>}
ProviderResults ==
    {[throws |-> FALSE, completion |-> c] : c \in Completions} \cup
    {[throws |-> TRUE, message |-> m] : m \in ProviderErrors}

\* completion.choices?.[0]?.message?.content, "" standing for undefined
FirstChoiceContent(c) ==
    IF /\ "choices" \in DOMAIN c
       /\ Len(c.choices) > 0
       /\ "message" \in DOMAIN c.choices[1]
       /\ "content" \in DOMAIN c.choices[1].message
    THEN c.choices[1].message.content
    ELSE <<>>

\* completion.usage?.total_tokens || 0
TotalTokens(c) ==
    IF "usage" \in DOMAIN c /\ "total_tokens" \in DOMAIN c.usage
    THEN c.usage.total_tokens
    ELSE 0

\* NextResponse.json(body, {status}); providerCalls counts the calls of
\* groq.chat.completions.create made while the request was handled
Respond(status, body, calls) ==
    [status |-> status, text |-> StringifyBody(body), providerCalls |-> calls]

ConfigErrorBody ==
    [error |-> <<"Server configuration error">>,
     details |-> <<"API key not configured">>]

FailureBody(message) ==
    [success |-> FALSE, error |-> <<"AI processing failed">>, details |-> message]

\* the success body without the placeholder of line 54
SuccessBodyNoPlaceholder(c) ==
    [success |-> TRUE,
     content |-> FirstChoiceContent(c),
     tokens_used |-> TotalTokens(c),
     model |-> c.model]

SuccessBody(c) ==
    [success |-> TRUE,
     content |-> OrElse(FirstChoiceContent(c), <<"No response">>),
     tokens_used |-> TotalTokens(c),
     model |-> c.model]

\* !apiKey for an apiKey that is not trimmed
KeyMissingNoTrim(key) == ~key.defined \/ key.value = <<>>

\* !apiKey, for apiKey = process.env.GROQ_API_KEY?.trim()
KeyMissing(key) == ~key.defined \/ Trim(key.value) = <<>>

\* the try block with JSON.parse outside it: the exception of a malformed
\* payload reaches the framework, which answers its own error page
HandleRequestParseUncaught(req, prov) ==
    IF ~req.multipart
    THEN Respond(StatusProviderFailure, FailureBody(<<"Failed to parse body as FormData.">>), 0)
    ELSE IF "messages" \in DOMAIN req.fields /\ ~IsJson(req.fields.messages)
    THEN [status |-> StatusConfigError,
          text |-> [raw |-> <<"<!DOCTYPE", " html>">>], providerCalls |-> 0]
    ELSE IF prov.throws
    THEN Respond(StatusProviderFailure, FailureBody(prov.message), 1)
    ELSE Respond(StatusOk, SuccessBody(prov.completion), 1)

\* the try block: parse the form, parse the messages, call the provider
HandleRequest(req, prov) ==
    IF ~req.multipart
    THEN Respond(StatusProviderFailure, FailureBody(<<"Failed to parse body as FormData.">>), 0)
    ELSE IF "messages" \in DOMAIN req.fields /\ ~IsJson(req.fields.messages)
    THEN Respond(StatusProviderFailure, FailureBody(<<"Unexpected token">>), 0)
    ELSE IF prov.throws
    THEN Respond(StatusProviderFailure, FailureBody(prov.message), 1)
    ELSE Respond(StatusOk, SuccessBody(prov.completion), 1)

\* export async function POST(req)
POST(key, req, prov) ==
    IF KeyMissing(key)
    THEN Respond(StatusConfigError, ConfigErrorBody, 0)
    ELSE HandleRequest(req, prov)

(***************************************************************************)
(* The Conversation Controller: component Tutor of src/app/page.tsx.       *)
(* A handler is an operator from the component's state to its next state;  *)
(* an action runs one handler and then the effects of the render that      *)
(* follows.                                                                *)
(***************************************************************************)
\* what the askGroq of a render sees: the values of that render
Snapshot(s) ==
    [input |-> s.input, messages |-> s.messages, isMounted |-> s.isMounted,
     uploadedImage |-> s.uploadedImage]

Cur ==
    [input |-> input, uploadedImage |-> uploadedImage, messages |-> messages,
     isLoading |-> isLoading, isMounted |-> isMounted, listening |-> listening,
     transcript |-> transcript, fetches |-> fetches, utterances |-> utterances,
     captured |-> askGroqClosure, staleAtStart |-> staleAtStart]

Commit(s) ==
    /\ input' = s.input
    /\ uploadedImage' = s.uploadedImage
    /\ messages' = s.messages
    /\ isLoading' = s.isLoading
    /\ isMounted' = s.isMounted
    /\ listening' = s.listening
    /\ transcript' = s.transcript
    /\ fetches' = s.fetches
    /\ utterances' = s.utterances
    /\ askGroqClosure' = s.captured
    /\ staleAtStart' = s.staleAtStart

Apology == <<"Sorry, I encountered an error">>

\* speak without the cancel of line 35: the utterance queues behind the rest
speakNoCancel(s, text) ==
    IF ~s.isMounted \/ ~synthAvailable
    THEN s
    ELSE [s EXCEPT !.utterances = Append(@, text)]

\* speak: cancel whatever is queued, then queue the new utterance
speak(s, text) ==
    IF ~s.isMounted \/ ~synthAvailable
    THEN s
    ELSE LET cancelled == [s EXCEPT !.utterances = <<>>]
         IN [cancelled EXCEPT !.utterances = Append(@, text)]

\* the dependency list of askGroq without messages
askGroqDepsWithoutMessages(c) == <<c.input, c.isMounted, c.uploadedImage>>

\* the dependency list of askGroq (line 104); speak stands for isMounted
askGroqDeps(c) == <<c.input, c.messages, c.isMounted, c.uploadedImage>>

\* a render: useCallback keeps the askGroq of the last render unless one of
\* its dependencies changed, and then makes one that sees this render
Render(s) ==
    IF askGroqDeps(Snapshot(s)) # askGroqDeps(s.captured)
    THEN [s EXCEPT !.captured = Snapshot(s)]
    ELSE s

\* the test of line 58 without the trim
SubmitRefusedNoTrim(c) == c.input = <<>> \/ ~c.isMounted

\* line 58: askGroq returns at once
SubmitRefused(c) == Trim(c.input) = <<>> \/ ~c.isMounted

\* lines 68-71 without setUploadedImage(null)
AttachmentAfterSendKept(c, current) == current

\* lines 68-71: an attachment that was sent is cleared
AttachmentAfterSend(c, current) ==
    IF c.uploadedImage # NoFile THEN NoFile ELSE current

\* formData of askGroq: "messages" always, "image" when one is attached
TurnForm(history, image) ==
    IF image # NoFile
    THEN [messages |-> StringifyMessages(history), image |-> image]
    ELSE [messages |-> StringifyMessages(history)]

\* askGroq up to its await of fetch (lines 57-76).  It reads input,
\* messages, isMounted and uploadedImage as its render captured them; the
\* updater of setMessages receives the current history
askGroq(s) ==
    LET c == s.captured
    IN IF SubmitRefused(c)
       THEN s
       ELSE LET userMessage == [role |-> User, content |-> c.input]
                form == TurnForm(Append(c.messages, userMessage), c.uploadedImage)
            IN [s EXCEPT !.isLoading = TRUE,
                         !.messages = Append(@, userMessage),
                         !.input = <<>>,
                         !.uploadedImage = AttachmentAfterSend(c, @),
                         !.fetches = Append(@, [form |-> form, stage |-> "sent"])]

\* what lines 78-84 make of a response: the content to show, or the
\* message of the Error that the catch block receives
Succeeded(content) == [ok |-> TRUE, content |-> content]
Failed(message) == [ok |-> FALSE, message |-> message]

ReadResponse(resp) ==
    IF resp.rejected
    THEN Failed(<<"Failed to fetch">>)
    ELSE IF ~(resp.status >= 200 /\ resp.status <= 299)
    THEN LET errorText == ResponseText(resp.text)
         IN Failed(IF Includes(errorText, "<!DOCTYPE")
                   THEN <<"Server error">> ELSE errorText)
    ELSE IF ~IsJson(resp.text)
    THEN Failed(<<"Unexpected token < in JSON">>)
    ELSE LET data == JSONParse(resp.text)
         IN IF ~("success" \in DOMAIN data /\ data.success)
            THEN Failed(OrElse(IF "error" \in DOMAIN data THEN data.error ELSE <<>>,
                               <<"AI processing failed">>))
            ELSE Succeeded(OrElse(IF "content" \in DOMAIN data THEN data.content ELSE <<>>,
                                  <<"I didn't get a response">>))

\* an end of the try block that speaks the answer and appends no Message
askGroqTrySpeaksOnly(s, result) == speak(s, result.content)

\* lines 86-91: the end of the try block
askGroqTry(s, result) ==
    LET assistantMessage == [role |-> Assistant, content |-> result.content]
    IN speak([s EXCEPT !.messages = Append(@, assistantMessage)],
             assistantMessage.content)

\* a catch block that reports the failure but adds no Message
askGroqCatchSilent(s, result) == speak(s, Apology)

\* a catch block that speaks the error it shows
askGroqCatchSpeaksError(s, result) ==
    LET errorMessage == [role |-> Assistant,
                         content |-> <<"Error: ">> \o result.message,
                         error |-> TRUE]
    IN speak([s EXCEPT !.messages = Append(@, errorMessage)], errorMessage.content)

\* a catch block that sends the request of the failed turn once more
askGroqCatchRetries(s, result) ==
    LET errorMessage == [role |-> Assistant,
                         content |-> <<"Error: ">> \o result.message,
                         error |-> TRUE]
        failed == CHOOSE i \in DOMAIN s.fetches : s.fetches[i].stage = "responded"
        again == [form |-> s.fetches[failed].form, stage |-> "sent"]
        shown == speak([s EXCEPT !.messages = Append(@, errorMessage)], Apology)
    IN IF Len(s.fetches) < MaxTurns
       THEN [shown EXCEPT !.fetches = Append(@, again)]
       ELSE shown

\* lines 92-100: the catch block
askGroqCatch(s, result) ==
    LET errorMessage == [role |-> Assistant,
                         content |-> <<"Error: ">> \o result.message,
                         error |-> TRUE]
    IN speak([s EXCEPT !.messages = Append(@, errorMessage)], Apology)

\* a finally block without setIsLoading(false)
askGroqFinallyKeepsLoading(s, i) ==
    [s EXCEPT !.fetches[i] = [stage |-> "resolved"]]

\* lines 101-103: the finally block; the settled fetch is done with
askGroqFinally(s, i) ==
    [s EXCEPT !.isLoading = FALSE, !.fetches[i] = [stage |-> "resolved"]]

\* askGroqResume with setIsLoading(false) as the last statement of the try
\* block instead of a finally block
askGroqResumeNoFinally(s, i) ==
    LET result == ReadResponse(s.fetches[i].response)
    IN IF result.ok
       THEN askGroqFinally(askGroqTry(s, result), i)
       ELSE [askGroqCatch(s, result) EXCEPT !.fetches[i] = [stage |-> "resolved"]]

\* askGroq from the response on (lines 78-103) for the fetch numbered i
askGroqResume(s, i) ==
    LET result == ReadResponse(s.fetches[i].response)
    IN askGroqFinally(IF result.ok THEN askGroqTry(s, result)
                                   ELSE askGroqCatch(s, result), i)

\* useEffect of lines 110-112 in the render r that follows the render old:
\* mirror the transcript while listening
MirrorEffect(old, r) ==
    IF (r.transcript # old.transcript \/ r.listening # old.listening)
       /\ r.listening
    THEN [r EXCEPT !.input = r.transcript]
    ELSE r

\* useEffect of lines 114-118 in the render r that follows the render old:
\* the implicit submit; s holds the updates the effects before it queued
VoiceSubmitEffect(old, r, s) ==
    IF (r.listening # old.listening \/ r.transcript # old.transcript
        \/ r.captured # old.captured)
       /\ ~r.listening /\ Trim(r.transcript) # <<>>
    THEN askGroq(s)
    ELSE s

\* the state new is rendered after the render old and the effects run
EffectPass(old, new) ==
    LET r == Render(new)
    IN VoiceSubmitEffect(old, r, MirrorEffect(old, r))

\* the events that ask for a submission and the end of a turn are told
\* apart; the rest are "other"
EventKind(ev) ==
    IF ev \in {"enter", "ask", "voiceStop", "resolve"} THEN ev ELSE "other"

\* one step: the handler's state s is rendered and its effects run; what
\* they change is rendered in turn, until a render whose effects change
\* nothing (the third, at the latest: an askGroq called by the effect of one
\* render leaves an empty input to the next)
Step(ev, s) ==
    /\ \E handled \in {s} :
       \E r1 \in {EffectPass(Cur, handled)} :
       \E r2 \in {EffectPass(Render(handled), r1)} :
       \E r3 \in {EffectPass(Render(r1), r2)} :
          Commit(Render(r3))
    /\ lastEvent' = EventKind(ev)
    /\ UNCHANGED <<synthAvailable, relayIn, relayOut>>

\* the user and the recognition act until MaxTurns turns were submitted
CanAct == Len(fetches) < MaxTurns

\* useEffect of lines 28-31
Mount ==
    /\ ~isMounted
    /\ Step("mount", [Cur EXCEPT !.isMounted = TRUE])

\* onChange of the text input (line 185); the input is disabled while loading
TypeInput ==
    /\ isMounted /\ ~isLoading /\ CanAct
    /\ \E v \in Texts \ {input} : Step("type", [Cur EXCEPT !.input = v])

\* PressEnter without the test of isLoading
PressEnterUnguarded ==
    /\ isMounted /\ CanAct
    /\ Step("enter", askGroq(Cur))

\* onKeyDown of the text input with key Enter (line 186)
PressEnter ==
    /\ isMounted /\ CanAct
    /\ Step("enter", IF ~isLoading THEN askGroq(Cur) ELSE Cur)

\* a click on the Ask button (lines 203-206); a disabled button has no click
ClickAsk ==
    /\ isMounted /\ CanAct
    /\ Step("ask", IF isLoading \/ Trim(input) = <<>>
                   THEN Cur ELSE askGroq(Cur))

\* handleImageUpload (lines 42-46)
handleImageUpload ==
    /\ isMounted /\ CanAct
    /\ \E f \in Files : Step("image", [Cur EXCEPT !.uploadedImage = f])

\* SpeechRecognition.stopListening (line 50)
stopListening(s) == [s EXCEPT !.listening = FALSE, !.staleAtStart = FALSE]

\* SpeechRecognition.startListening (line 52): the recognition starts over
\* the transcript as it is
startListening(s) ==
    [s EXCEPT !.listening = TRUE, !.staleAtStart = (s.transcript # <<>>)]

\* a resetTranscript that resets nothing
resetTranscriptKeeps(s) == s

\* resetTranscript (line 53)
resetTranscript(s) == [s EXCEPT !.transcript = <<>>]

\* handleVoice (lines 48-55); the voice button is disabled while loading
handleVoice ==
    /\ isMounted /\ ~isLoading /\ CanAct
    /\ IF listening
       THEN Step("voiceStop", stopListening(Cur))
       ELSE Step("voiceStart", resetTranscript(startListening(Cur)))

\* the recognition library delivers a new transcript while listening
TranscriptUpdate ==
    /\ isMounted /\ listening /\ CanAct
    /\ \E t \in Texts \ {transcript} :
          Step("transcript", [Cur EXCEPT !.transcript = t])

Pending(fs) == {i \in DOMAIN fs : fs[i].stage # "resolved"}

Answer(i, resp) ==
    /\ fetches[i].stage = "sent"
    /\ lastEvent' = "other"
    /\ UNCHANGED <<input, uploadedImage, messages, isLoading, isMounted,
                   listening, transcript, staleAtStart, utterances,
                   synthAvailable, askGroqClosure, relayIn, relayOut>>
    /\ fetches' = [fetches EXCEPT ![i] = [form |-> @.form,
                                          stage |-> "responded",
                                          response |-> resp]]

\* the request reaches the Relay, which handles it with the credential its
\* process has and whatever the provider does
RelayPOST ==
    \E i \in Pending(fetches), key \in Keys, prov \in ProviderResults :
        LET out == POST(key, [multipart |-> TRUE, fields |-> fetches[i].form], prov)
        IN Answer(i, [rejected |-> FALSE, status |-> out.status,
                      text |-> out.text, providerCalls |-> out.providerCalls])

\* fetch rejects: the request or its response is lost
NetworkFailure ==
    \E i \in Pending(fetches) : Answer(i, [rejected |-> TRUE])

\* something between the browser and the Relay answers in its place: an
\* HTML error page, an HTML page with status 200, or a failure body under
\* status 200 (the case line 84 is written for)
OtherResponses ==
    { [rejected |-> FALSE, status |-> StatusConfigError,
       text |-> [raw |-> <<"<!DOCTYPE", " html>">>]],
      [rejected |-> FALSE, status |-> StatusOk,
       text |-> [raw |-> <<"<html>">>]],
      [rejected |-> FALSE, status |-> StatusOk,
       text |-> StringifyBody(FailureBody(<<"upstream">>))] }

OtherResponse ==
    \E i \in Pending(fetches), r \in OtherResponses : Answer(i, r)

\* the awaited fetch settles and askGroq runs to its end
Resolve ==
    \E i \in Pending(fetches) :
        /\ fetches[i].stage = "responded"
        /\ Step("resolve", askGroqResume(Cur, i))

NoRelay == [none |-> TRUE]

ControllerInit ==
    /\ input = <<>>
    /\ uploadedImage = NoFile
    /\ messages = <<>>
    /\ isLoading = FALSE
    /\ isMounted = FALSE
    /\ listening = FALSE
    /\ transcript = <<>>
    /\ staleAtStart = FALSE
    /\ fetches = <<>>
    /\ utterances = <<>>
    /\ synthAvailable \in BOOLEAN
    /\ askGroqClosure = [input |-> <<>>, messages |-> <<>>, isMounted |-> FALSE,
                         uploadedImage |-> NoFile]
    /\ lastEvent = "none"

Init ==
    /\ ControllerInit
    /\ relayIn = NoRelay
    /\ relayOut = NoRelay

Next ==
    \/ Mount
    \/ TypeInput
    \/ PressEnter
    \/ ClickAsk
    \/ handleImageUpload
    \/ handleVoice
    \/ TranscriptUpdate
    \/ RelayPOST
    \/ NetworkFailure
    \/ OtherResponse
    \/ Resolve

Spec == Init /\ [][Next]_vars

\* the awaited fetch always settles, and the settled promise is always run
Settles == NetworkFailure \/ OtherResponse \/ RelayPOST
LiveSpec == Spec /\ WF_vars(Settles) /\ WF_vars(Resolve)

(***************************************************************************)
(* The Relay on its own: any client, any request.                          *)
(***************************************************************************)
SomeMessages ==
    { <<>>,
      <<[role |-> User, content |-> <<"a">>]>>,
      <<[role |-> User, content |-> <<"a">>],
        [role |-> Assistant, content |-> <<"Error: ", "Failed to fetch">>, error |-> TRUE],
        [role |-> User, content |-> <<"a", "a">>]>> }

RelayRequests ==
    {[multipart |-> FALSE]} \cup
    {[multipart |-> TRUE, fields |-> f] :
        f \in {[messages |-> StringifyMessages(ms)] : ms \in SomeMessages} \cup
              {[messages |-> StringifyMessages(ms), image |-> i] :
                   ms \in SomeMessages, i \in Files} \cup
              {[messages |-> [raw |-> <<"{oops">>]],
               [messages |-> [raw |-> <<>>]],
               [messages |-> [json |-> JsonNull]],
               [image |-> "photo.png"]}}

\* the provider, seen from the call of line 46: it settles the call with a
\* result or an error of its own before the client's timeout, or it does not
ProviderSilent == [silent |-> TRUE]
ProviderBehaviours == ProviderResults \cup {ProviderSilent}

\* what create() throws when the timeout given to the client (line 43:
\* timeout: 15000) runs out
TimedOut == [throws |-> TRUE, message |-> <<"Request timed out.">>]

\* the handler gets as far as the provider call of line 46
ReachesProvider(key, req) == POST(key, req, TimedOut).providerCalls > 0

RelayInit ==
    /\ ControllerInit
    /\ relayIn \in {[key |-> k, req |-> r, prov |-> p, called |-> FALSE] :
                        k \in Keys, r \in RelayRequests, p \in ProviderBehaviours}
    /\ relayOut = NoRelay

RelayUnchanged ==
    UNCHANGED <<input, uploadedImage, messages, isLoading, isMounted,
                listening, transcript, staleAtStart, fetches, utterances,
                synthAvailable, askGroqClosure, lastEvent>>

\* POST up to its await of the provider call, or to the response it returns
\* without one
RelayInvoke ==
    /\ relayOut = NoRelay /\ ~relayIn.called
    /\ IF ReachesProvider(relayIn.key, relayIn.req)
       THEN relayIn' = [relayIn EXCEPT !.called = TRUE] /\ relayOut' = relayOut
       ELSE relayOut' = POST(relayIn.key, relayIn.req, TimedOut) /\ relayIn' = relayIn
    /\ RelayUnchanged

\* the provider settles the awaited call and POST runs to its return
ProviderAnswers ==
    /\ relayOut = NoRelay /\ relayIn.called
    /\ relayIn.prov # ProviderSilent
    /\ relayOut' = POST(relayIn.key, relayIn.req, relayIn.prov)
    /\ relayIn' = relayIn
    /\ RelayUnchanged

\* a client built without a timeout: nothing ends the awaited call
RequestTimeoutNever ==
    /\ relayOut = NoRelay /\ relayIn.called
    /\ relayIn.prov = ProviderSilent
    /\ FALSE
    /\ UNCHANGED vars

\* the timeout of the client runs out on a silent provider: the awaited call
\* throws and POST runs to the return of its catch
RequestTimeout ==
    /\ relayOut = NoRelay /\ relayIn.called
    /\ relayIn.prov = ProviderSilent
    /\ relayOut' = POST(relayIn.key, relayIn.req, TimedOut)
    /\ relayIn' = relayIn
    /\ RelayUnchanged

RelayNext == RelayInvoke \/ ProviderAnswers \/ RequestTimeout

RelaySpec == RelayInit /\ [][RelayNext]_vars

\* the handler runs, a provider that answers does, and the timer fires
RelayLiveSpec ==
    /\ RelaySpec
    /\ WF_vars(RelayInvoke) /\ WF_vars(ProviderAnswers) /\ WF_vars(RequestTimeout)

(***************************************************************************)
(* Properties.                                                             *)
(***************************************************************************)
IsPrefix(a, b) == Len(a) <= Len(b) /\ SubSeq(b, 1, Len(a)) = a
Last(q) == q[Len(q)]
Blank(t) == \A i \in DOMAIN t : t[i] = " "

\* this step issued a fetch
Submits == Len(fetches') > Len(fetches)
\* this step ran askGroq to its end for the fetch numbered i
Resolves(i) ==
    /\ i \in DOMAIN fetches
    /\ fetches[i].stage = "responded"
    /\ fetches'[i].stage = "resolved"
ResolvesSome == \E i \in DOMAIN fetches : Resolves(i)
ResolvedCount == Cardinality({i \in DOMAIN fetches : fetches[i].stage = "resolved"})

\* C1: a call of askGroq with a non-blank input appends exactly one user
\* Message and issues one fetch; the end of a turn, by success or by any
\* failure, appends exactly one assistant Message; nothing else changes the
\* history, which therefore has two Messages per completed turn, one more per
\* turn in flight, and never shrinks.
C1_TwoMessagesPerTurn ==
    /\ [](Len(messages) = Len(fetches) + ResolvedCount)
    /\ [][ /\ IsPrefix(messages, messages')
           /\ (lastEvent' \in {"enter", "ask"} /\ ~isLoading /\ ~Blank(input)
                  => Submits)
           /\ (Submits => /\ Len(fetches') = Len(fetches) + 1
                          /\ Len(messages') = Len(messages) + 1
                          /\ Last(messages').role = User
                          /\ Last(fetches').stage = "sent")
           /\ (ResolvesSome => /\ Len(messages') = Len(messages) + 1
                               /\ Last(messages').role = Assistant)
           /\ (~Submits /\ ~ResolvesSome => messages' = messages) ]_vars

\* a turn that failed and a turn that succeeded have both completed
C1_Witness ==
    /\ Len(messages) = 4
    /\ Pending(fetches) = {}
    /\ "error" \in DOMAIN messages[2]
    /\ "error" \notin DOMAIN messages[4]

\* C2: at most one turn is in flight; while one is, no step issues a fetch
\* or appends a user Message, whichever event it handles.
C2_SingleFlight ==
    /\ [](Cardinality(Pending(fetches)) <= 1)
    /\ [][ Pending(fetches) # {} =>
             /\ ~Submits
             /\ (messages' # messages =>
                    ResolvesSome /\ Last(messages').role = Assistant)
             /\ (lastEvent' \in {"enter", "ask", "voiceStop"} =>
                    messages' = messages /\ fetches' = fetches) ]_vars

\* Enter is pressed while a turn is in flight whose input the recognition has
\* filled again
C2_Witness ==
    /\ Pending(fetches) # {}
    /\ lastEvent = "enter"
    /\ listening
    /\ ~Blank(input)
\* C3: a step in which listening goes from true to false with a non-blank
\* transcript submits exactly one turn, whose user Message holds that
\* transcript.
C3_VoiceStopSubmitsTranscript ==
    [][ listening /\ ~listening' /\ ~Blank(transcript') =>
          /\ Len(fetches') = Len(fetches) + 1
          /\ messages' = Append(messages, [role |-> User, content |-> transcript']) ]_vars

\* C4: the end of a turn clears isLoading whatever the outcome, and, the
\* fetch settling eventually, isLoading never stays true.
C4_LoadingCleared ==
    /\ [][ResolvesSome => ~isLoading']_vars
    /\ (isLoading ~> ~isLoading)

\* a turn has just ended on an exception raised while the response was read
C4_Witness ==
    /\ lastEvent = "resolve"
    /\ ~isLoading
    /\ Last(messages).content = <<"Error: ", "Unexpected token < in JSON">>

\* the names of the properties of a JSON object text
BodyOf(out) == JSONParse(out.text)

\* C5: every response of the Relay is {success: true, content, tokens_used,
\* model} or {success: false, error, details}.
C5_TwoShapes ==
    relayOut # NoRelay =>
        LET body == BodyOf(relayOut)
        IN \/ /\ DOMAIN body = {"success", "content", "tokens_used", "model"}
              /\ body.success
           \/ /\ DOMAIN body = {"success", "error", "details"}
              /\ ~body.success

\* C6 as stated: input and attachment are empty when the turn is submitted
\* and when it resolves.
C6_EmptyAtSubmitAndAtResolve ==
    [][ Submits \/ ResolvesSome =>
           input' = <<>> /\ uploadedImage' = NoFile ]_vars

\* C6 amended: the submission leaves input and attachment empty; the end of
\* the turn changes neither; and in flight the input is non-empty only while
\* the recognition is listening (its transcript is mirrored).
C6_ClearedBySubmission ==
    /\ [](Pending(fetches) # {} /\ ~listening => input = <<>>)
    /\ [][ /\ (Submits => input' = <<>> /\ uploadedImage' = NoFile)
           /\ (ResolvesSome => input' = input /\ uploadedImage' = uploadedImage) ]_vars

\* a turn has just ended while an image attached in flight and a transcript
\* mirrored in flight are pending
C6_Witness ==
    /\ lastEvent = "resolve"
    /\ uploadedImage # NoFile
    /\ input # <<>>

\* C7: Enter, the Ask button or the stop of the voice capture with a blank
\* input changes neither history, input, attachment, isLoading, the fetches
\* issued nor the speech queue.
C7_BlankSubmitIsNoOp ==
    [][ lastEvent' \in {"enter", "ask", "voiceStop"} /\ Blank(input) =>
          UNCHANGED <<messages, input, uploadedImage, isLoading, fetches,
                      utterances>> ]_vars

\* Enter was pressed on a whitespace-only input, with history behind it
C7_Witness ==
    /\ lastEvent = "enter"
    /\ input = <<" ">>
    /\ Len(messages) = 2
    /\ utterances # <<>>
\* C8: the messages a turn sends to the Relay are the history as it stands
\* once the user Message of the turn is appended: all earlier Messages in
\* order, then the new user Message.
C8_RequestCarriesHistory ==
    [][ Submits =>
          LET sent == Last(fetches').form.messages
          IN /\ IsJson(sent)
             /\ JSONParse(sent) = messages'
             /\ SubSeq(messages', 1, Len(messages)) = messages
             /\ Len(messages') = Len(messages) + 1
             /\ Last(JSONParse(sent)).role = User ]_vars

\* a turn is in flight whose request carries an earlier turn, error included
C8_Witness ==
    /\ Pending(fetches) # {}
    /\ Len(messages) = 3
    /\ "error" \in DOMAIN messages[2]
    /\ Len(JSONParse(fetches[2].form.messages)) = 3

\* the outcome of a response, in the terms of the claim
ResponseFailed(resp) ==
    \/ resp.rejected
    \/ ~resp.rejected /\ resp.status # StatusOk
    \/ /\ ~resp.rejected /\ resp.status = StatusOk /\ IsJson(resp.text)
       /\ "success" \in DOMAIN BodyOf(resp) /\ ~BodyOf(resp).success
ResponseSucceeded(resp) ==
    /\ ~resp.rejected /\ resp.status = StatusOk /\ IsJson(resp.text)
    /\ "success" \in DOMAIN BodyOf(resp) /\ BodyOf(resp).success
\* the speech queue after speak(text) was called in this step
Spoke(text) ==
    IF synthAvailable THEN utterances' = <<text>> ELSE utterances' = utterances

\* C9: a failed turn appends an assistant Message with error = true and
\* speaks the apology, never the error text; a successful turn appends an
\* assistant Message without error flag whose content is the Relay's content,
\* and speaks that content.
C9_ErrorFlagAndSpeech ==
    [][ \A i \in DOMAIN fetches : Resolves(i) =>
          LET resp == fetches[i].response
              shown == Last(messages')
          IN /\ shown.role = Assistant
             /\ Len(messages') = Len(messages) + 1
             /\ (ResponseFailed(resp) =>
                    /\ "error" \in DOMAIN shown /\ shown.error
                    /\ Spoke(Apology)
                    /\ utterances' # <<shown.content>>)
             /\ (ResponseSucceeded(resp) =>
                    /\ "error" \notin DOMAIN shown
                    /\ shown.content = BodyOf(resp).content
                    /\ Spoke(BodyOf(resp).content)) ]_vars

\* a failed turn and then a successful turn have ended, the last one spoken
C9_Witness ==
    /\ lastEvent = "resolve"
    /\ Len(messages) = 4
    /\ "error" \in DOMAIN messages[2]
    /\ messages[4] = [role |-> Assistant, content |-> Paris]
    /\ utterances = <<Paris>>

\* the credential is absent or blank, in the terms of the claim
CredentialAbsent(key) == ~key.defined \/ Blank(key.value)

\* C10: with the credential absent or blank the Relay answers the
\* configuration error and does not call the provider; the provider is
\* called only with the credential present.
C10_NoProviderCallWithoutCredential ==
    relayOut # NoRelay =>
        /\ (CredentialAbsent(relayIn.key) =>
               /\ relayOut.providerCalls = 0
               /\ relayOut.status = StatusConfigError
               /\ BodyOf(relayOut).error = <<"Server configuration error">>
               /\ BodyOf(relayOut).details = <<"API key not configured">>)
        /\ (relayOut.providerCalls > 0 => ~CredentialAbsent(relayIn.key))

\* a request handled with a whitespace-only credential, and a provider ready
\* to answer
C10_Witness ==
    /\ relayOut # NoRelay
    /\ relayIn.key = EnvSet(<<" ">>)
    /\ relayIn.req.multipart
    /\ "completion" \in DOMAIN relayIn.prov
    /\ relayOut.status = StatusConfigError

\* the outcome classes of one invocation, in the terms of the claim
PayloadMalformed(req) ==
    \/ ~req.multipart
    \/ req.multipart /\ "messages" \in DOMAIN req.fields
          /\ "raw" \in DOMAIN req.fields.messages
ProviderCalled == relayOut.providerCalls > 0
ProviderSucceeded == ProviderCalled /\ "completion" \in DOMAIN relayIn.prov
ProviderFailed == ProviderCalled /\ "completion" \notin DOMAIN relayIn.prov
SuccessTrue(out) ==
    /\ IsJson(out.text)
    /\ "success" \in DOMAIN BodyOf(out)
    /\ BodyOf(out).success

\* C11: the status is 500 exactly when the credential is missing, 502
\* exactly when the credential is present and the parsing of the payload or
\* the provider call fails, 200 exactly when the provider call succeeds; a
\* malformed payload and a provider failure carry the same error text; the
\* body has success: true exactly when the status is 200.
C11_StatusByOutcome ==
    relayOut # NoRelay =>
        LET missing == CredentialAbsent(relayIn.key)
            malformed == PayloadMalformed(relayIn.req)
        IN /\ relayOut.status \in {StatusOk, StatusConfigError, StatusProviderFailure}
           /\ (relayOut.status = StatusConfigError <=> missing)
           /\ (relayOut.status = StatusProviderFailure <=>
                  ~missing /\ (malformed \/ ProviderFailed))
           /\ (relayOut.status = StatusOk <=> ProviderSucceeded)
           /\ (~missing /\ (malformed \/ ProviderFailed) =>
                  BodyOf(relayOut).error = <<"AI processing failed">>)
           /\ (~missing /\ malformed => ~ProviderCalled)
           /\ (SuccessTrue(relayOut) <=> relayOut.status = StatusOk)

\* a malformed messages payload was handled with the credential present and
\* a provider ready to answer
C11_Witness ==
    /\ relayOut # NoRelay
    /\ relayIn.key = EnvSet(<<"k">>)
    /\ relayIn.req.multipart
    /\ "messages" \in DOMAIN relayIn.req.fields
    /\ relayIn.req.fields.messages = [raw |-> <<"{oops">>]
    /\ "completion" \in DOMAIN relayIn.prov
    /\ relayOut.status = StatusProviderFailure

\* the text of the first choice of a completion is there
HasFirstText(c) ==
    /\ "choices" \in DOMAIN c
    /\ c.choices # <<>>
    /\ "message" \in DOMAIN Head(c.choices)
    /\ "content" \in DOMAIN Head(c.choices).message
FirstText(c) == Head(c.choices).message.content
UsageReported(c) == "usage" \in DOMAIN c /\ "total_tokens" \in DOMAIN c.usage

\* the parts of the claim that do not concern the content
C12_TokensAndModel(c, body) ==
    /\ DOMAIN body = {"success", "content", "tokens_used", "model"}
    /\ body.success
    /\ body.tokens_used = (IF UsageReported(c) THEN c.usage.total_tokens ELSE 0)
    /\ body.model = c.model

\* C12 as stated: on success content is the text of the first choice, and
\* "No response" when there is no such text; tokens_used is the usage total,
\* 0 when no usage is reported; model is the provider's model.
C12_FieldByField ==
    relayOut # NoRelay /\ relayOut.status = StatusOk =>
        LET c == relayIn.prov.completion
            body == BodyOf(relayOut)
        IN /\ C12_TokensAndModel(c, body)
           /\ body.content = (IF HasFirstText(c) THEN FirstText(c)
                                               ELSE <<"No response">>)

\* C12 amended: content is the text of the first choice when there is one
\* and it is not the empty string, and "No response" otherwise; the rest as
\* stated.
C12_PlaceholderForAbsentOrEmpty ==
    relayOut # NoRelay /\ relayOut.status = StatusOk =>
        LET c == relayIn.prov.completion
            body == BodyOf(relayOut)
        IN /\ C12_TokensAndModel(c, body)
           /\ body.content = (IF HasFirstText(c) /\ FirstText(c) # <<>>
                               THEN FirstText(c) ELSE <<"No response">>)

\* the provider answered a first choice whose text is the empty string
C12_Witness ==
    /\ relayOut # NoRelay
    /\ relayOut.status = StatusOk
    /\ HasFirstText(relayIn.prov.completion)
    /\ FirstText(relayIn.prov.completion) = <<>>
    /\ BodyOf(relayOut).content = <<"No response">>

\* the text the turn that just ended has to speak
NewestUtterance ==
    IF "error" \in DOMAIN Last(messages') THEN Apology ELSE Last(messages').content

\* C13: the speech queue never holds more than one utterance; the end of a
\* turn, which is where speak is called, leaves in it the utterance of that
\* turn alone, whatever was there before; nothing else adds an utterance.
C13_OneUtterance ==
    /\ [](Len(utterances) <= 1)
    /\ [][ /\ (ResolvesSome /\ synthAvailable =>
                  utterances' = <<NewestUtterance>>)
           /\ (utterances' # utterances => ResolvesSome) ]_vars

\* the apology of a second turn has replaced the spoken answer of the first
C13_Witness ==
    /\ lastEvent = "resolve"
    /\ Len(messages) = 4
    /\ "error" \notin DOMAIN messages[2]
    /\ messages[2].content # Apology
    /\ utterances = <<Apology>>

\* the provider call of this invocation is awaited
AwaitingProvider == relayOut = NoRelay /\ relayIn.called

\* C14: every invocation of the Relay returns a response; when the provider
\* has not answered by the time the client's timeout runs out the response
\* is the provider failure, status 502 and success: false.
C14_RelayAlwaysResponds ==
    /\ (relayOut = NoRelay ~> relayOut # NoRelay)
    /\ [][ AwaitingProvider /\ relayIn.prov = ProviderSilent /\ relayOut' # NoRelay =>
             /\ relayOut'.status = StatusProviderFailure
             /\ DOMAIN BodyOf(relayOut') = {"success", "error", "details"}
             /\ ~BodyOf(relayOut').success
             /\ BodyOf(relayOut').error = <<"AI processing failed">> ]_vars

\* the invocation whose provider stayed silent has returned
C14_Witness ==
    /\ relayOut # NoRelay
    /\ relayIn.called
    /\ relayIn.prov = ProviderSilent
    /\ relayOut.status = StatusProviderFailure

\* the user Messages of a history
UserMessages(ms) == {i \in DOMAIN ms : ms[i].role = User}

\* C15: one fetch per submitted turn, issued by the submission; the end of a
\* turn, failed or not, issues none and leaves the other fetches alone, so
\* that after a failure no request leaves before the next submission; a
\* response, once there, is not replaced by another; the Relay calls the
\* provider at most once for a request.
C15_NoRetry ==
    /\ [](Len(fetches) = Cardinality(UserMessages(messages)))
    /\ [](\A i \in DOMAIN fetches :
            fetches[i].stage = "responded"
            /\ "providerCalls" \in DOMAIN fetches[i].response
               => fetches[i].response.providerCalls <= 1)
    /\ [][ /\ Len(fetches') >= Len(fetches)
           /\ (Submits => /\ Len(fetches') = Len(fetches) + 1
                          /\ Cardinality(UserMessages(messages')) = Len(fetches')
                          /\ lastEvent' # "resolve")
           /\ (ResolvesSome => /\ Len(fetches') = Len(fetches)
                               /\ Pending(fetches') = {})
           /\ (\A i \in DOMAIN fetches :
                  /\ fetches[i].stage = "resolved" => fetches'[i] = fetches[i]
                  /\ fetches[i].stage = "responded" =>
                        fetches'[i] = fetches[i] \/ Resolves(i)) ]_vars

\* a turn submitted by the stop of the voice capture has failed: the
\* transcript is still there, the capture is off, and nothing is in flight
C15_Witness ==
    /\ lastEvent = "resolve"
    /\ "error" \in DOMAIN Last(messages)
    /\ Pending(fetches) = {}
    /\ ~listening
    /\ ~Blank(transcript)
    /\ Len(fetches) < MaxTurns

\* this step toggles the voice input on
VoiceStarts == ~listening /\ listening'

\* C16 as stated: the transcript is reset before the recognition is started,
\* so that no recognition runs that was started over a leftover transcript.
C16_ResetBeforeStart == listening => ~staleAtStart

\* C16 amended: the recognition is started first and the transcript is reset
\* right after, in the same call of handleVoice; once that call has run and
\* its effects with it, the transcript is empty and so is the pending input
\* that mirrors it, whatever the earlier capture left.
C16_ResetWithStart ==
    [][ VoiceStarts => /\ transcript' = <<>>
                       /\ input' = <<>>
                       /\ ~Submits
                       /\ messages' = messages ]_vars

\* the voice input was toggled on over the transcript of an earlier capture
C16_Witness ==
    /\ listening
    /\ staleAtStart
    /\ transcript = <<>>
    /\ input = <<>>
    /\ lastEvent = "other"

\* C17: a turn is submitted only by a step that handles Enter, a click on
\* Ask, or the stop of the voice capture with a non-blank transcript; a
\* keystroke, an attachment, a new transcript or the end of a turn submits
\* nothing by itself.
C17_SubmitOnlyOnRequest ==
    [][ Submits =>
          /\ lastEvent' \in {"enter", "ask", "voiceStop"}
          /\ (lastEvent' = "voiceStop" => ~Blank(transcript')) ]_vars

\* C18: isLoading is true exactly when a submitted turn has not resolved,
\* whether its response is still awaited or has arrived and is not handled
\* yet.
C18_LoadingMirrorsPipeline == isLoading <=> Pending(fetches) # {}

\* the response of a second turn has arrived and is about to be handled
C18_Witness ==
    /\ isLoading
    /\ Len(fetches) = 2
    /\ fetches[1].stage = "resolved"
    /\ fetches[2].stage = "responded"

\* the roles of a history alternate, a user Message first
Alternates(ms) ==
    \A i \in DOMAIN ms : ms[i].role = (IF i % 2 = 1 THEN User ELSE Assistant)

\* C19: the roles of the history alternate, starting with a user Message;
\* the assistant Message of a turn is appended right behind the user Message
\* of that turn, the last of the request the turn sent; with no turn in
\* flight the history has an even length, with one in flight an odd one.
C19_RolesAlternate ==
    /\ [](Alternates(messages))
    /\ [](Len(messages) % 2 = (IF Pending(fetches) = {} THEN 0 ELSE 1))
    /\ [][ \A i \in DOMAIN fetches : Resolves(i) =>
             /\ JSONParse(fetches[i].form.messages) = messages
             /\ Last(messages).role = User
             /\ Len(messages') = Len(messages) + 1
             /\ SubSeq(messages', 1, Len(messages)) = messages
             /\ Last(messages').role = Assistant ]_vars

\* two turns have completed, the first one spoken and answered
C19_Witness ==
    /\ Len(messages) = 4
    /\ Pending(fetches) = {}
    /\ ~listening
    /\ ~Blank(transcript)
    /\ "error" \notin DOMAIN messages[2]

====
